---- MODULE Spec2Model ----
(***************************************************************************)
(* Model of src/tasks.rs of agenda: the Task entity (new, modify, start,   *)
(* stop, complete) and the Tasks collection (new, task_exists, is_empty,   *)
(* get_task, push, remove, len, clear).                                    *)
(*                                                                         *)
(* Option<T> is a sequence of length at most one: None is <<>> and Some(x) *)
(* is <<x>>.  A Vec<T> is a sequence; a usize index id addresses element   *)
(* id + 1 of the sequence.                                                 *)
(***************************************************************************)
EXTENDS Naturals, Sequences, FiniteSets, TLC

\* Largest number of tasks the collection is allowed to hold in the model.
MaxLen == 3
\* Largest number of pushes counted since the last successful clear.
MaxPush == 4

None == <<>>
Some(x) == <<x>>
is_some(o) == o # None
is_none(o) == o = None
unwrap(o) == o[1]
Opt(S) == {None} \cup {Some(x) : x \in S}

\* Input domains.
Titles == {"A", "B"}
NotesSet == {"n"}
TagsSet == {<<"t">>}
\* NaiveDateTime values: two for when, one for deadline and reminder.
Whens == {1, 2}
Dates == {1}
Paths == {"repo"}
Files == {"tasks"}
\* usize arguments tried for an index: every valid one and one beyond.
Ids == 0..MaxLen

\* enum Status
Status == {"Inbox", "Pending", "Active", "Complete"}

\* Arguments of Task::new and Task::modify as records; title is Some(_) for new.
NoArgs == [title |-> None, notes |-> None, tags |-> None, when |-> None, deadline |-> None, reminder |-> None]
NewArgs == [title : {Some(x) : x \in Titles}, notes : Opt(NotesSet), tags : Opt(TagsSet), when : Opt(Whens), deadline : Opt(Dates), reminder : Opt(Dates)]
ModifyArgs == [title : Opt(Titles), notes : Opt(NotesSet), tags : Opt(TagsSet), when : Opt(Whens), deadline : Opt(Dates), reminder : Opt(Dates)]
\* The smaller argument sets used on tasks stored in the collection.
PushArgs == [title : {Some("A")}, notes : {None}, tags : {None}, when : Opt({1}), deadline : {None}, reminder : {None}]
EditArgs == [title : {None}, notes : {None}, tags : {None}, when : Opt({1}), deadline : {None}, reminder : {None}]

\* path, file, tasks: the fields of the Tasks collection.
\* task: the Task value a caller holds outside the collection (None if none).
\* op, id, args, res: the last call, its index and field arguments, its result.
\* prevStatus: the status of the caller-held task before the last Task method call.
\* prevShape: whether self.tasks was None, Some of an empty vector or Some of a
\* non-empty vector before the last call on the collection.
\* pushes, removes: the pushes and the successful removes counted since the last
\* successful clear (since construction if none), where a caller counts them.
VARIABLES path, file, tasks, task, op, id, args, res, prevStatus, prevShape, pushes, removes

vars == <<path, file, tasks, task, op, id, args, res, prevStatus, prevShape, pushes, removes>>

-----------------------------------------------------------------------------
(* impl Task *)

TaskNew_StatusInbox(title, notes, tags, when, deadline, reminder) == [title |-> title, status |-> "Inbox", notes |-> notes, tags |-> tags, when |-> when, deadline |-> deadline, reminder |-> reminder]

TaskNew(title, notes, tags, when, deadline, reminder) ==
    LET status == IF is_some(when) THEN "Pending" ELSE "Inbox"
    IN  [title |-> title, status |-> status, notes |-> notes, tags |-> tags,
         when |-> when, deadline |-> deadline, reminder |-> reminder]

modify_Replace(self, title, notes, tags, when, deadline, reminder) == [title |-> IF is_some(title) THEN unwrap(title) ELSE self.title, status |-> self.status, notes |-> notes, tags |-> tags, when |-> when, deadline |-> deadline, reminder |-> reminder]

modify_RederivesStatus(self, title, notes, tags, when, deadline, reminder) == [title |-> IF is_some(title) THEN unwrap(title) ELSE self.title, status |-> IF is_some(when) THEN "Pending" ELSE self.status, notes |-> IF is_some(notes) THEN notes ELSE self.notes, tags |-> IF is_some(tags) THEN tags ELSE self.tags, when |-> IF is_some(when) THEN when ELSE self.when, deadline |-> IF is_some(deadline) THEN deadline ELSE self.deadline, reminder |-> IF is_some(reminder) THEN reminder ELSE self.reminder]

modify(self, title, notes, tags, when, deadline, reminder) ==
    [title    |-> IF is_some(title) THEN unwrap(title) ELSE self.title,
     status   |-> self.status,
     notes    |-> IF is_some(notes) THEN Some(unwrap(notes)) ELSE self.notes,
     tags     |-> IF is_some(tags) THEN Some(unwrap(tags)) ELSE self.tags,
     when     |-> IF is_some(when) THEN Some(unwrap(when)) ELSE self.when,
     deadline |-> IF is_some(deadline) THEN Some(unwrap(deadline)) ELSE self.deadline,
     reminder |-> IF is_some(reminder) THEN Some(unwrap(reminder)) ELSE self.reminder]

start_OnlyIfNotComplete(self) == IF self.status = "Complete" THEN self ELSE [self EXCEPT !.status = "Active"]

start_Toggle(self) == IF self.status = "Active" THEN [self EXCEPT !.status = "Inbox"] ELSE [self EXCEPT !.status = "Active"]

start(self) == [self EXCEPT !.status = "Active"]

stop_ClearsWhen(self) == IF is_some(self.when) THEN [self EXCEPT !.status = "Inbox", !.when = None] ELSE [self EXCEPT !.status = "Pending"]

stop(self) ==
    IF is_some(self.when)
    THEN [self EXCEPT !.status = "Inbox"]
    ELSE [self EXCEPT !.status = "Pending"]

complete_OnlyIfActive(self) == IF self.status = "Active" THEN [self EXCEPT !.status = "Complete"] ELSE self

complete(self) == [self EXCEPT !.status = "Complete"]

-----------------------------------------------------------------------------
(* Results and errors *)

\* TasksError(String): the message, with the formatted id kept as a number.
task_not_found(i) == <<"couldn't find task with id ", i>>
no_tasks_available == <<"no tasks available">>

\* Result<_, TasksError>: val is the Ok payload (the task a returned reference
\* points at, None for Ok(())), err the error message (None for Ok).
Ok(v) == [ok |-> TRUE, val |-> v, err |-> None]
Err(e) == [ok |-> FALSE, val |-> None, err |-> e]
Unit == None

-----------------------------------------------------------------------------
(* A caller holding one Task value: Task::new and the Task methods *)

InitTask ==
    /\ path \in Paths
    /\ file \in Files
    /\ tasks = None
    /\ \E a \in NewArgs :
          /\ task = Some(TaskNew(unwrap(a.title), a.notes, a.tags, a.when, a.deadline, a.reminder))
          /\ args = a
    /\ op = "new"
    /\ id = 0
    /\ res = Ok(Unit)
    /\ prevStatus = "-"
    /\ prevShape = "-"
    /\ pushes = 0
    /\ removes = 0

NewTask(a) ==
    /\ task' = Some(TaskNew(unwrap(a.title), a.notes, a.tags, a.when, a.deadline, a.reminder))
    /\ op' = "new"
    /\ args' = a
    /\ prevStatus' = "-"
    /\ UNCHANGED <<path, file, tasks, id, res, prevShape, pushes, removes>>

ModifyTask(a) ==
    /\ task' = Some(modify(unwrap(task), a.title, a.notes, a.tags, a.when, a.deadline, a.reminder))
    /\ op' = "modify"
    /\ args' = a
    /\ prevStatus' = unwrap(task).status
    /\ UNCHANGED <<path, file, tasks, id, res, prevShape, pushes, removes>>

StartTask ==
    /\ task' = Some(start(unwrap(task)))
    /\ op' = "start"
    /\ args' = NoArgs
    /\ prevStatus' = unwrap(task).status
    /\ UNCHANGED <<path, file, tasks, id, res, prevShape, pushes, removes>>

StopTask ==
    /\ task' = Some(stop(unwrap(task)))
    /\ op' = "stop"
    /\ args' = NoArgs
    /\ prevStatus' = unwrap(task).status
    /\ UNCHANGED <<path, file, tasks, id, res, prevShape, pushes, removes>>

CompleteTask ==
    /\ task' = Some(complete(unwrap(task)))
    /\ op' = "complete"
    /\ args' = NoArgs
    /\ prevStatus' = unwrap(task).status
    /\ UNCHANGED <<path, file, tasks, id, res, prevShape, pushes, removes>>

NextTask ==
    \/ \E a \in NewArgs : NewTask(a)
    \/ \E a \in ModifyArgs : ModifyTask(a)
    \/ StartTask
    \/ StopTask
    \/ CompleteTask

SpecTask == InitTask /\ [][NextTask]_vars

-----------------------------------------------------------------------------
(* impl Tasks; self is the record [path, file, tasks] *)

Self == [path |-> path, file |-> file, tasks |-> tasks]

TasksNew(repo_path, tasks_file) == [path |-> repo_path, file |-> tasks_file, tasks |-> None]

len(self) == IF is_none(self.tasks) THEN 0 ELSE Len(unwrap(self.tasks))

task_exists_Inclusive(self, i) == i <= len(self)

task_exists(self, i) == i < len(self)

is_empty(self) == len(self) = 0

get_task_First(self, i) == IF is_empty(self) THEN Err(no_tasks_available) ELSE IF task_exists(self, i) THEN Ok(Some(unwrap(self.tasks)[1])) ELSE Err(task_not_found(i))

get_task_BoundsOnly(self, i) == IF task_exists(self, i) THEN Ok(Some(unwrap(self.tasks)[i + 1])) ELSE Err(task_not_found(i))

\* The Ok payload is the task the returned &mut Task points at: element i of the vector.
get_task(self, i) ==
    IF is_empty(self)
    THEN Err(no_tasks_available)
    ELSE IF task_exists(self, i)
         THEN Ok(Some(unwrap(self.tasks)[i + 1]))
         ELSE Err(task_not_found(i))

push_Front(self, t) == IF is_empty(self) THEN [self EXCEPT !.tasks = Some(<<t>>)] ELSE [self EXCEPT !.tasks = Some(<<t>> \o unwrap(self.tasks))]

push(self, t) ==
    IF is_empty(self)
    THEN [self EXCEPT !.tasks = Some(<<t>>)]
    ELSE [self EXCEPT !.tasks = Some(Append(unwrap(self.tasks), t))]

\* Vec::remove(index): drops element index and shifts the later ones left.
VecRemove(v, i) == SubSeq(v, 1, i) \o SubSeq(v, i + 2, Len(v))

remove_SwapRemove(self, i) == IF task_exists(self, i) THEN [self |-> [self EXCEPT !.tasks = Some(LET v == unwrap(self.tasks) IN SubSeq([v EXCEPT ![i + 1] = v[Len(v)]], 1, Len(v) - 1))], res |-> Ok(Unit)] ELSE [self |-> self, res |-> Err(task_not_found(i))]

remove_Truncate(self, i) == IF task_exists(self, i) THEN [self |-> [self EXCEPT !.tasks = Some(SubSeq(unwrap(self.tasks), 1, i))], res |-> Ok(Unit)] ELSE [self |-> self, res |-> Err(task_not_found(i))]

remove(self, i) ==
    IF task_exists(self, i)
    THEN [self |-> [self EXCEPT !.tasks = Some(VecRemove(unwrap(self.tasks), i))], res |-> Ok(Unit)]
    ELSE [self |-> self, res |-> Err(task_not_found(i))]

clear_AlwaysOk(self) == [self |-> [self EXCEPT !.tasks = None], res |-> Ok(Unit)]

clear_ResetThenCheck(self) == IF is_empty(self) THEN [self |-> [self EXCEPT !.tasks = None], res |-> Err(no_tasks_available)] ELSE [self |-> [self EXCEPT !.tasks = None], res |-> Ok(Unit)]

clear_EmptiesVec(self) == IF is_empty(self) THEN [self |-> self, res |-> Err(no_tasks_available)] ELSE [self |-> [self EXCEPT !.tasks = Some(<<>>)], res |-> Ok(Unit)]

clear(self) ==
    IF is_empty(self)
    THEN [self |-> self, res |-> Err(no_tasks_available)]
    ELSE [self |-> [self EXCEPT !.tasks = None], res |-> Ok(Unit)]

\* Whether the call reaches self.tasks.as_mut().unwrap() / as_ref().unwrap(),
\* which panics when self.tasks is None.
len_unwraps(self) == ~is_none(self.tasks)
get_task_unwraps(self, i) == ~is_empty(self) /\ task_exists(self, i)
push_unwraps(self) == ~is_empty(self)
remove_unwraps(self, i) == task_exists(self, i)

-----------------------------------------------------------------------------
(* A caller driving one Tasks collection *)

Init ==
    /\ \E p \in Paths, f \in Files :
          LET s == TasksNew(p, f)
          IN  path = s.path /\ file = s.file /\ tasks = s.tasks
    /\ task = None
    /\ op = "Tasks::new"
    /\ id = 0
    /\ args = NoArgs
    /\ res = Ok(Unit)
    /\ prevStatus = "-"
    /\ prevShape = "-"
    /\ pushes = 0
    /\ removes = 0

SetSelf(s) == path' = s.path /\ file' = s.file /\ tasks' = s.tasks

Shape == IF is_none(tasks) THEN "None" ELSE IF unwrap(tasks) = <<>> THEN "Empty" ELSE "NonEmpty"

\* tasks.push(Task::new(..)); the model stops growing the vector at MaxLen.
PushCall(a) ==
    /\ len(Self) < MaxLen
    /\ SetSelf(push(Self, TaskNew(unwrap(a.title), a.notes, a.tags, a.when, a.deadline, a.reminder)))
    /\ op' = "push"
    /\ id' = 0
    /\ args' = a
    /\ res' = Ok(Unit)
    /\ prevStatus' = "-"
    /\ prevShape' = Shape
    /\ UNCHANGED task

Push(a) == PushCall(a) /\ UNCHANGED <<pushes, removes>>

RemoveCall(i) ==
    LET r == remove(Self, i)
    IN  /\ SetSelf(r.self)
        /\ op' = "remove"
        /\ id' = i
        /\ args' = NoArgs
        /\ res' = r.res
        /\ prevStatus' = "-"
        /\ prevShape' = Shape
        /\ UNCHANGED task

Remove(i) == RemoveCall(i) /\ UNCHANGED <<pushes, removes>>

ClearCall ==
    LET r == clear(Self)
    IN  /\ SetSelf(r.self)
        /\ op' = "clear"
        /\ id' = 0
        /\ args' = NoArgs
        /\ res' = r.res
        /\ prevStatus' = "-"
        /\ prevShape' = Shape
        /\ UNCHANGED task

Clear == ClearCall /\ UNCHANGED <<pushes, removes>>

GetTask(i) ==
    /\ res' = get_task(Self, i)
    /\ op' = "get_task"
    /\ id' = i
    /\ args' = NoArgs
    /\ prevStatus' = "-"
    /\ prevShape' = Shape
    /\ UNCHANGED <<path, file, tasks, task, pushes, removes>>

\* The read-only queries; res records the value returned.
TaskExists(i) ==
    /\ res' = Ok(Some(task_exists(Self, i)))
    /\ op' = "task_exists"
    /\ id' = i
    /\ args' = NoArgs
    /\ prevStatus' = "-"
    /\ prevShape' = Shape
    /\ UNCHANGED <<path, file, tasks, task, pushes, removes>>

IsEmpty ==
    /\ res' = Ok(Some(is_empty(Self)))
    /\ op' = "is_empty"
    /\ id' = 0
    /\ args' = NoArgs
    /\ prevStatus' = "-"
    /\ prevShape' = Shape
    /\ UNCHANGED <<path, file, tasks, task, pushes, removes>>

LenOf ==
    /\ res' = Ok(Some(len(Self)))
    /\ op' = "len"
    /\ id' = 0
    /\ args' = NoArgs
    /\ prevStatus' = "-"
    /\ prevShape' = Shape
    /\ UNCHANGED <<path, file, tasks, task, pushes, removes>>

\* tasks.get_task(i)?.method(..): the method is applied in place to the task
\* the returned reference points at; a failing get_task is passed on.
EditAt(i, name, a, edited) ==
    LET r == get_task(Self, i)
    IN  /\ op' = name
        /\ id' = i
        /\ args' = a
        /\ IF r.ok
           THEN /\ tasks' = Some([unwrap(tasks) EXCEPT ![i + 1] = edited])
                /\ res' = Ok(Unit)
           ELSE /\ tasks' = tasks
                /\ res' = r
        /\ prevStatus' = "-"
        /\ prevShape' = Shape
        /\ UNCHANGED <<path, file, task, pushes, removes>>

StartAt(i) ==
    LET r == get_task(Self, i)
    IN  EditAt(i, "start", NoArgs, IF r.ok THEN start(unwrap(r.val)) ELSE None)

StopAt(i) ==
    LET r == get_task(Self, i)
    IN  EditAt(i, "stop", NoArgs, IF r.ok THEN stop(unwrap(r.val)) ELSE None)

CompleteAt(i) ==
    LET r == get_task(Self, i)
    IN  EditAt(i, "complete", NoArgs, IF r.ok THEN complete(unwrap(r.val)) ELSE None)

ModifyAt(i, a) ==
    LET r == get_task(Self, i)
    IN  EditAt(i, "modify", a, IF r.ok THEN modify(unwrap(r.val), a.title, a.notes, a.tags, a.when, a.deadline, a.reminder) ELSE None)

Next ==
    \/ \E a \in PushArgs : Push(a)
    \/ \E i \in Ids : Remove(i)
    \/ Clear
    \/ \E i \in Ids : GetTask(i)
    \/ \E i \in Ids : TaskExists(i)
    \/ IsEmpty
    \/ LenOf
    \/ \E i \in Ids : StartAt(i)
    \/ \E i \in Ids : StopAt(i)
    \/ \E i \in Ids : CompleteAt(i)
    \/ \E i \in Ids, a \in EditArgs : ModifyAt(i, a)

Spec == Init /\ [][Next]_vars

-----------------------------------------------------------------------------
(* A caller that counts its pushes and successful removes and gives the task
   of its n-th push since the last clear the title n *)

PushCounted(w) ==
    /\ pushes < MaxPush
    /\ PushCall([NoArgs EXCEPT !.title = Some(pushes + 1), !.when = w])
    /\ pushes' = pushes + 1
    /\ removes' = removes

RemoveCounted(i) ==
    /\ RemoveCall(i)
    /\ removes' = IF remove(Self, i).res.ok THEN removes + 1 ELSE removes
    /\ pushes' = pushes

ClearCounted ==
    /\ ClearCall
    /\ pushes' = IF clear(Self).res.ok THEN 0 ELSE pushes
    /\ removes' = IF clear(Self).res.ok THEN 0 ELSE removes

NextOrder ==
    \/ \E w \in Opt({1}) : PushCounted(w)
    \/ \E i \in Ids : RemoveCounted(i)
    \/ ClearCounted
    \/ \E i \in Ids : GetTask(i)
    \/ LenOf

SpecOrder == Init /\ [][NextOrder]_vars

-----------------------------------------------------------------------------
(* Properties *)

\* The stored vector, empty when self.tasks is None.
TaskVec == IF tasks = None THEN <<>> ELSE tasks[1]

OptionalFields == {"notes", "tags", "when", "deadline", "reminder"}

\* C1: stop() sets the status to Pending if the task's when is set and to Inbox
\* if it is not, whatever the prior status, and changes no other field.
C1_StopPendingIffWhenSet ==
    [][op' = "stop" =>
         unwrap(task') = [unwrap(task) EXCEPT !.status = IF unwrap(task).when # None THEN "Pending" ELSE "Inbox"]]_vars

\* C2: Task::new derives the status from when alone (Pending if Some, Inbox if
\* None) and stores every other argument verbatim.
C2_NewDerivesStatusFromWhen ==
    op = "new" =>
        unwrap(task) = [title    |-> unwrap(args.title),
                        status   |-> IF args.when # None THEN "Pending" ELSE "Inbox",
                        notes    |-> args.notes,
                        tags     |-> args.tags,
                        when     |-> args.when,
                        deadline |-> args.deadline,
                        reminder |-> args.reminder]

\* A task was constructed with when and other optional fields set and is Pending.
C2_Witness ==
    /\ op = "new"
    /\ args.when = Some(2)
    /\ args.notes # None
    /\ args.deadline # None
    /\ unwrap(task).status = "Pending"

\* C3: get_task(id) fails with no-tasks-available on a collection of length 0
\* for every id, else fails with task-not-found(id) when id >= len, else returns
\* the task stored at position id.
C3_GetTaskThreeOutcomes ==
    op = "get_task" =>
        res = IF Len(TaskVec) = 0
              THEN Err(no_tasks_available)
              ELSE IF id >= Len(TaskVec)
                   THEN Err(task_not_found(id))
                   ELSE Ok(Some(TaskVec[id + 1]))

\* get_task with an index beyond 0 on a collection emptied by removes reported
\* no-tasks-available, not the bounds error.
C3_Witness ==
    /\ op = "get_task"
    /\ tasks = Some(<<>>)
    /\ id > 0
    /\ res = Err(no_tasks_available)

\* C4: remove(id) with id < len succeeds, shortens the vector by one, keeps the
\* tasks below id in place and moves each task above id down by one; with
\* id >= len it fails with task-not-found(id).
C4_RemoveShiftsDown ==
    [][op' = "remove" =>
         IF id' < Len(TaskVec)
         THEN /\ res' = Ok(Unit)
              /\ Len(TaskVec') = Len(TaskVec) - 1
              /\ \A j \in 1..id' : TaskVec'[j] = TaskVec[j]
              /\ \A j \in (id' + 2)..Len(TaskVec) : TaskVec'[j - 1] = TaskVec[j]
         ELSE res' = Err(task_not_found(id'))]_vars

\* remove(1) succeeded on a collection of three tasks: one task below and one
\* above the removed position remain.
C4_Witness ==
    /\ op = "remove"
    /\ res.ok
    /\ id = 1
    /\ Len(TaskVec) = 2

\* C5: clear() on a collection of length 0 fails with no-tasks-available; on a
\* non-empty collection it succeeds and leaves is_empty() true and len() 0, and
\* a clear() right after a successful clear() fails with no-tasks-available.
C5_ClearTwoTier ==
    [][/\ op' = "clear" =>
            IF Len(TaskVec) = 0
            THEN res' = Err(no_tasks_available)
            ELSE res' = Ok(Unit) /\ is_empty(Self)' /\ len(Self)' = 0
       /\ (op = "clear" /\ res.ok /\ op' = "clear") => res' = Err(no_tasks_available)]_vars

\* clear() failed on a collection that removes had emptied (Some of an empty vector).
C5_Witness ==
    /\ op = "clear"
    /\ prevShape = "Empty"
    /\ res = Err(no_tasks_available)

\* C6: push(task) always succeeds, makes len() one larger, puts the pushed task
\* at position len()-1 and leaves every stored task at its position, from any
\* kind of empty or non-empty collection.
C6_PushAppends ==
    [][op' = "push" =>
         /\ res' = Ok(Unit)
         /\ len(Self)' = len(Self) + 1
         /\ Len(TaskVec') = Len(TaskVec) + 1
         /\ TaskVec'[Len(TaskVec')] = TaskNew(unwrap(args'.title), args'.notes, args'.tags, args'.when, args'.deadline, args'.reminder)
         /\ \A j \in 1..Len(TaskVec) : TaskVec'[j] = TaskVec[j]]_vars

\* A task was pushed onto a collection that removes had emptied.
C6_Witness ==
    /\ op = "push"
    /\ prevShape = "Empty"
    /\ Len(TaskVec) = 1

\* C7: a call that returns an error leaves tasks, path and file as they were.
C7_FailureMutatesNothing ==
    [][~res'.ok => (tasks' = tasks /\ path' = path /\ file' = file)]_vars

\* remove failed on a collection holding two tasks.
C7_Witness ==
    /\ op = "remove"
    /\ ~res.ok
    /\ Len(TaskVec) = 2

\* C8: start() sets the status to Active from every prior status, is always
\* callable and changes no other field.
C8_StartAlwaysActive ==
    /\ [][op' = "start" => unwrap(task') = [unwrap(task) EXCEPT !.status = "Active"]]_vars
    /\ [](ENABLED StartTask)

\* start() reactivated a Complete task.
C8_Witness ==
    /\ op = "start"
    /\ prevStatus = "Complete"
    /\ unwrap(task).status = "Active"

\* C9: complete() sets the status to Complete from every prior status, is
\* always callable and changes no other field; start() and stop() stay callable
\* on a Complete task and take it out of Complete.
C9_CompleteNotAbsorbing ==
    /\ [][op' = "complete" => unwrap(task') = [unwrap(task) EXCEPT !.status = "Complete"]]_vars
    /\ [][(unwrap(task).status = "Complete" /\ op' \in {"start", "stop"}) => unwrap(task').status # "Complete"]_vars
    /\ [](ENABLED CompleteTask /\ ENABLED StartTask /\ ENABLED StopTask)

\* stop() was applied to a task that complete() had made Complete.
C9_Witness ==
    /\ op = "stop"
    /\ prevStatus = "Complete"
    /\ unwrap(task).status # "Complete"

\* C10: modify overwrites exactly the fields whose argument is present and
\* keeps the others; it never changes status.
C10_ModifyIsPatch ==
    [][op' = "modify" =>
         LET t == unwrap(task)
             u == unwrap(task')
             a == args'
         IN  /\ u.title = IF a.title # None THEN a.title[1] ELSE t.title
             /\ \A f \in OptionalFields : u[f] = IF a[f] # None THEN a[f] ELSE t[f]
             /\ u.status = t.status
             /\ (a = NoArgs => u = t)
             /\ ((a.title # None /\ \A f \in OptionalFields : a[f] = None) => u = [t EXCEPT !.title = a.title[1]])]_vars

\* modify with only a title was applied to a task whose optional fields were set.
C10_Witness ==
    /\ op = "modify"
    /\ args = [NoArgs EXCEPT !.title = Some("B")]
    /\ unwrap(task).title = "B"
    /\ unwrap(task).when = Some(2)
    /\ unwrap(task).notes # None
    /\ unwrap(task).status = "Active"

\* C11: in every reachable state task_exists(id) is true iff id < len() and
\* is_empty() is true iff len() = 0, so task_exists is false for every id
\* whenever is_empty() is true.
C11_ExistsIffBelowLen ==
    /\ len(Self) = Len(TaskVec)
    /\ is_empty(Self) <=> (Len(TaskVec) = 0)
    /\ \A i \in Ids : task_exists(Self, i) <=> (i < Len(TaskVec))
    /\ is_empty(Self) => \A i \in Ids : ~task_exists(Self, i)
    /\ op = "task_exists" => res = Ok(Some(id < Len(TaskVec)))
    /\ op = "is_empty" => res = Ok(Some(Len(TaskVec) = 0))
    /\ op = "len" => res = Ok(Some(Len(TaskVec)))

\* task_exists(0) returned false on a collection emptied by removes.
C11_Witness ==
    /\ op = "task_exists"
    /\ id = 0
    /\ tasks = Some(<<>>)
    /\ res = Ok(Some(FALSE))

\* C12: len() equals the number of pushes minus the number of successful
\* removes since the last successful clear (since construction if none); it is
\* 0 for a never-populated collection and right after a successful clear.
C12_LenIsPushesMinusRemoves ==
    /\ len(Self) + removes = pushes
    /\ op = "len" => res = Ok(Some(len(Self)))
    /\ op = "Tasks::new" => len(Self) = 0
    /\ (op = "clear" /\ res.ok) => len(Self) = 0

\* len() returned 2 after four pushes and two successful removes.
C12_Witness ==
    /\ op = "len"
    /\ pushes = 4
    /\ removes = 2
    /\ res = Ok(Some(2))

\* C13: start(), stop() and complete() are idempotent: the same transition
\* applied a second time in a row leaves the whole task as the first left it,
\* and every transition is always callable.
C13_TransitionsIdempotent ==
    /\ [][(op \in {"start", "stop", "complete"} /\ op' = op) => task' = task]_vars
    /\ [](ENABLED StartTask /\ ENABLED StopTask /\ ENABLED CompleteTask)

\* complete() was applied to a task that complete() had already made Complete.
C13_Witness ==
    /\ op = "complete"
    /\ prevStatus = "Complete"
    /\ unwrap(task).status = "Complete"

\* C14: no reachable state makes a call panic: whenever len, push, get_task or
\* remove would execute the unwrap of self.tasks, self.tasks is Some.
C14_UnwrapOnlyOnSome ==
    /\ len_unwraps(Self) => tasks # None
    /\ push_unwraps(Self) => tasks # None
    /\ \A i \in Ids : get_task_unwraps(Self, i) => tasks # None
    /\ \A i \in Ids : remove_unwraps(Self, i) => tasks # None

\* remove took the last task out, leaving Some of an empty vector behind.
C14_Witness ==
    /\ op = "remove"
    /\ res.ok
    /\ prevShape = "NonEmpty"
    /\ tasks = Some(<<>>)

\* The collection as Tasks::new(path, file) returns it.
Fresh == TasksNew(path, file)

\* C15: an empty collection, whether never populated, cleared or emptied by
\* removes, answers len, is_empty, task_exists, get_task, remove and clear as
\* the freshly constructed one does for every argument, and a push onto it
\* gives the same one-element contents; a successful clear sets tasks to the
\* value it has right after construction and leaves path and file unchanged.
C15_EmptyIsLikeFresh ==
    /\ [](is_empty(Self) =>
            /\ len(Self) = len(Fresh)
            /\ is_empty(Fresh)
            /\ clear(Self).res = clear(Fresh).res
            /\ \A i \in Ids :
                  /\ task_exists(Self, i) = task_exists(Fresh, i)
                  /\ get_task(Self, i) = get_task(Fresh, i)
                  /\ remove(Self, i).res = remove(Fresh, i).res
            /\ \A a \in PushArgs :
                  LET t == TaskNew(unwrap(a.title), a.notes, a.tags, a.when, a.deadline, a.reminder)
                  IN  push(Self, t) = push(Fresh, t))
    /\ [][(op' = "clear" /\ res'.ok) => (tasks' = Fresh.tasks /\ path' = path /\ file' = file)]_vars

\* is_empty() returned true on a collection emptied by removes, whose tasks
\* field is Some of an empty vector and not None as after construction.
C15_Witness ==
    /\ op = "is_empty"
    /\ tasks = Some(<<>>)
    /\ res = Ok(Some(TRUE))

\* The statuses of the stored tasks, by position.
Statuses(v) == [j \in 1..Len(v) |-> v[j].status]

\* C16: the status of a stored task changes only by start, stop or complete
\* applied to that task: modify (also one that sets when), the read-only calls
\* and every failed call keep all statuses; push keeps the statuses of the
\* tasks already stored; remove keeps the statuses of the other tasks; a
\* transition on one task keeps the statuses of the others.
C16_StatusOnlyByTransitions ==
    [][/\ (op' \in {"modify", "get_task", "task_exists", "is_empty", "len"} \/ ~res'.ok) =>
            Statuses(TaskVec') = Statuses(TaskVec)
       /\ op' = "push" =>
            \A j \in 1..Len(TaskVec) : TaskVec'[j].status = TaskVec[j].status
       /\ (op' = "remove" /\ res'.ok) =>
            \A j \in 1..Len(TaskVec) :
                j # id' + 1 => TaskVec'[IF j > id' + 1 THEN j - 1 ELSE j].status = TaskVec[j].status
       /\ (op' \in {"start", "stop", "complete"} /\ res'.ok) =>
            /\ Len(TaskVec') = Len(TaskVec)
            /\ \A j \in 1..Len(TaskVec) : j # id' + 1 => TaskVec'[j].status = TaskVec[j].status]_vars

\* modify set when on a stored task and the task is still in Inbox.
C16_Witness ==
    /\ op = "modify"
    /\ res.ok
    /\ args.when = Some(1)
    /\ TaskVec[id + 1].when = Some(1)
    /\ TaskVec[id + 1].status = "Inbox"

\* C17: an optional field of a task that is set stays set through every
\* modify, start, stop and complete on that task.
C17_OptionalFieldsNeverCleared ==
    [][op' \in {"modify", "start", "stop", "complete"} =>
         \A f \in OptionalFields : unwrap(task)[f] # None => unwrap(task')[f] # None]_vars

\* stop() was applied to a task whose when and deadline are set, and they still are.
C17_Witness ==
    /\ op = "stop"
    /\ prevStatus = "Active"
    /\ unwrap(task).when = Some(2)
    /\ unwrap(task).deadline # None

\* C18: the stored tasks are in insertion order: of two stored tasks the one
\* pushed earlier (the lower push number, kept in its title) is at the lower
\* position, and exactly the positions 0..len()-1 hold a task.
C18_InsertionOrder ==
    /\ \A j, k \in 1..Len(TaskVec) : j < k => TaskVec[j].title < TaskVec[k].title
    /\ \A i \in Ids : get_task(Self, i).ok <=> i < len(Self)
    /\ \A i \in Ids : get_task(Self, i).ok => get_task(Self, i).val = Some(TaskVec[i + 1])

\* The fourth push landed behind the first and third after the second was removed.
C18_Witness ==
    /\ op = "push"
    /\ Len(TaskVec) = 3
    /\ TaskVec[1].title = 1
    /\ TaskVec[2].title = 3
    /\ TaskVec[3].title = 4

\* C19: start, stop, complete or modify applied to the task a successful
\* get_task(id) returns changes the task at position id, as the method
\* prescribes, and nothing else: len(), the tasks at the other positions and
\* their order, path and file stay as they were.
C19_InPlaceEditIsLocal ==
    [][(op' \in {"start", "stop", "complete", "modify"} /\ res'.ok) =>
         LET old == TaskVec[id' + 1]
             a == args'
         IN  /\ len(Self)' = len(Self)
             /\ Len(TaskVec') = Len(TaskVec)
             /\ \A j \in 1..Len(TaskVec) : j # id' + 1 => TaskVec'[j] = TaskVec[j]
             /\ TaskVec'[id' + 1] = CASE op' = "start" -> start(old)
                                      [] op' = "stop" -> stop(old)
                                      [] op' = "complete" -> complete(old)
                                      [] op' = "modify" -> modify(old, a.title, a.notes, a.tags, a.when, a.deadline, a.reminder)
             /\ path' = path
             /\ file' = file]_vars

\* stop() was applied in place to the middle one of three stored tasks, whose
\* neighbours are Complete and Active.
C19_Witness ==
    /\ op = "stop"
    /\ res.ok
    /\ id = 1
    /\ Len(TaskVec) = 3
    /\ TaskVec[1].status = "Complete"
    /\ TaskVec[2].status \in {"Inbox", "Pending"}
    /\ TaskVec[3].status = "Active"

====
